---- MODULE Spec2Model ----
(***************************************************************************)
(* State machine of src/designs.py: FlightSearcher.run and the stages it   *)
(* drives (search_flights, select_date, extract_top_flights, reset_form).  *)
(*                                                                         *)
(* The page is the environment.  Every wait.until call draws the time the  *)
(* awaited condition needs from Delays and succeeds when that time is      *)
(* within the wait budget in force; every element lookup draws what the    *)
(* page holds; every driver.get may load or raise.  Snapshots, page_source *)
(* and current_url are read from the local browser session and succeed.    *)
(***************************************************************************)
EXTENDS Integers, Sequences, FiniteSets, TLC

(* ------------------------------ bounds --------------------------------- *)

\* most elements one flight-card locator can match on a results page
MaxCards == 6

(* ------------------------- program constants --------------------------- *)

from_city == "BLR"

to_cities == <<"DEL", "CCU", "MAA", "HYD">>

EntryUrl == "https://www.cleartrip.com/flights"

\* stands for every URL other than the entry page, with or without "results" in it
OtherUrl == "https://www.cleartrip.com/flights/..."

ShortWait == 5

ResultsWait == 15

LongWait == 30

CityAttempts == 2

\* a loop that gives up one attempt early
TwoDateAttempts == 3 - 1

DateAttempts == 3

NumLocators == 4

\* 250-255: the locators for flight cards, in the order of the list
locators == <<"flight_card", "flight_or_result", "css_class", "price_ancestor">>

\* a cap that keeps one card too many
TopNOffByOne == 5 + 1

\* flight_cards = ...[:5]
TopN == 5

(* --------------------------- the environment --------------------------- *)

\* how long an awaited condition takes to hold: within the short budget,
\* within the results budget, within the long budget, or longer than any
Delays == {3, 10, 20, 40}

\* day numbers datetime.now() may fall on; the code only adds offsets to it
StartDays == {0}

\* texts are sequences of characters
NA == <<"N", "/", "A">>

DefaultDuration == <<"3">>

DefaultAirline == <<"I", "n", "d", "i", "g", "o">>

DurationTexts == { <<" ", "2", "h", " ">> }

AirlineTexts == { <<"A", "I", " ">> }

PriceTexts == { <<" ", "R", "1">>, NA }

\* what find_element yields: no such element, or an element with a text
Lookup(texts) ==
    {[found |-> FALSE, text |-> <<>>]} \cup {[found |-> TRUE, text |-> t] : t \in texts}

(* ---------------------------- pure helpers ----------------------------- *)

IsSpace(c) == c \in {" ", "\t", "\n"}

RECURSIVE LStrip(_)
LStrip(s) == IF s # <<>> /\ IsSpace(Head(s)) THEN LStrip(Tail(s)) ELSE s

RECURSIVE RStrip(_)
RStrip(s) ==
    IF s # <<>> /\ IsSpace(s[Len(s)]) THEN RStrip(SubSeq(s, 1, Len(s) - 1)) ELSE s

\* str.strip()
Strip(s) == RStrip(LStrip(s))

\* f"{airline} - {price}"
AirlinePrice(airline, price) == airline \o <<" ", "-", " ">> \o price

\* flight_cards = <all elements of the locator>[:5], elements named by position
FirstCards(n) == [k \in 1..(IF n < TopN THEN n ELSE TopN) |-> k]

\* a wait.until call: the condition holds after d units, the budget is b
Within(d, b) == d <= b

AllOf(sig, budget) == \A k \in DOMAIN sig : Within(sig[k], budget)

\* EC.any_of(...) under wait.until
AnyOf(sig, budget) == \E k \in DOMAIN sig : Within(sig[k], budget)

(* ------------------------------- state --------------------------------- *)

VARIABLES
    pc,             \* position in run() and the stage it is in
    i,              \* index of the destination in to_cities (0-based, as enumerate)
    wait,           \* budget of self.wait
    url,            \* driver.current_url
    now,            \* day number of datetime.now() at construction
    exc,            \* the exception in flight or last caught ("none" when none)
    started,        \* destinations search_flights was called for, in call order
    outcome,        \* what run() printed for the current destination
    resets,         \* calls of reset_form made by run() so far
    field,          \* the city field being entered: "from" or "to"
    attempt,        \* loop variable of the running retry loop
    is_return,      \* select_date's is_return argument
    fromValue,      \* value confirmed in the origin field by this search
    toValue,        \* value confirmed in the destination field by this search
    depSelected,    \* calendar days clicked for the departure date by this search
    retSelected,    \* calendar days clicked for the return date by this search
    fbTried,        \* dates ("departure", "return") this search ran the fallback for
    fbClickable,    \* those of them whose next-day cell was clickable
    validationSeen, \* the validation-error message was found by this search
    submitClicks,   \* clicks on the search button by this search
    signals,        \* times the four completion signals took in the results wait
    errShot,        \* error_results_*.png written by this search
    noResultsSeen,  \* the no-results message was found by this extraction
    probed,         \* the readiness probe was evaluated by this extraction
    locIdx,         \* locators evaluated so far by this extraction
    tried,          \* the locators evaluated by this extraction, in evaluation order
    winner,         \* position of the locator whose elements are used (0: none)
    found,          \* elements the winning locator returned (0: none won)
    flight_cards,   \* the cards kept, named by their position in the locator's result
    cardIdx,        \* next card of flight_cards to parse
    flight_data,    \* rows appended so far
    emitted,        \* for each row of flight_data, the card it was built from
    priceFound,     \* the price element of the card parsed last was found
    diag,           \* page markup and screenshot written by this extraction
    resetFailed,    \* the in-place reset after this destination failed
    reloaded,       \* a driver.get of the entry page succeeded after that failure
    readyOk,        \* the form-readiness wait after that reload succeeded
    user_data_dir,  \* the profile directory of mkdtemp: "none", "exists", "removed"
    driver          \* self.driver: "none" or "open"

vars == <<pc, i, wait, url, now, exc, started, outcome, resets, field, attempt, is_return,
          fromValue, toValue, depSelected, retSelected, fbTried, fbClickable,
          validationSeen, submitClicks, signals, errShot, noResultsSeen, probed, locIdx, tried, winner, found,
          flight_cards, cardIdx, flight_data, emitted, priceFound, diag, resetFailed, reloaded,
          readyOk, user_data_dir, driver>>

runVars == <<i, now, started, outcome, resets>>

formVars == <<fromValue, toValue, depSelected, retSelected, fbTried, fbClickable,
              validationSeen, submitClicks, signals, errShot>>

extractVars == <<noResultsSeen, probed, locIdx, tried, winner, found, flight_cards, cardIdx,
                 flight_data, emitted, priceFound, diag>>

resetVars == <<resetFailed, reloaded, readyOk>>

loopVars == <<field, attempt, is_return>>

mainVars == <<user_data_dir, driver>>

to_city == to_cities[i + 1]

departure_date == now + 1

\* a return date counted from the run time
FourDaysFromNow == now + 4

return_date == departure_date + 4

\* no wait object yet (self.wait = None)
NoWait == 0

\* the URL of a browser that has loaded nothing
BlankUrl == "about:blank"

\* state when main() starts: FlightSearchAutomation.__init__ has set driver,
\* wait and user_data_dir to None, and the fields of FlightSearcher.__init__
\* are given the values they get once setup_driver has returned
Init ==
    /\ pc = "main"
    /\ user_data_dir = "none"
    /\ driver = "none"
    /\ i = 0
    /\ wait = NoWait
    /\ url = BlankUrl
    /\ now \in StartDays
    /\ exc = "none"
    /\ started = <<>>
    /\ outcome = "pending"
    /\ resets = 0
    /\ field = "from"
    /\ attempt = 0
    /\ is_return = FALSE
    /\ fromValue = ""
    /\ toValue = ""
    /\ depSelected = {}
    /\ retSelected = {}
    /\ fbTried = {}
    /\ fbClickable = {}
    /\ validationSeen = FALSE
    /\ submitClicks = 0
    /\ signals = <<>>
    /\ errShot = FALSE
    /\ noResultsSeen = FALSE
    /\ probed = FALSE
    /\ locIdx = 0
    /\ tried = <<>>
    /\ winner = 0
    /\ found = 0
    /\ flight_cards = <<>>
    /\ cardIdx = 1
    /\ flight_data = <<>>
    /\ emitted = <<>>
    /\ priceFound = FALSE
    /\ diag = FALSE
    /\ resetFailed = FALSE
    /\ reloaded = FALSE
    /\ readyOk = FALSE

(* ------------------------------- main() ------------------------------- *)

\* 387, 26-39: FlightSearcher() calls setup_driver: the profile directory is
\* created, then the driver is installed and Chrome started; when that raises
\* the exception leaves the constructor and main(), which has no handler yet
SetupDriver ==
    /\ pc = "main"
    /\ user_data_dir' = "exists"
    /\ \E launched \in BOOLEAN :
        IF launched
        THEN /\ driver' = "open"
             /\ wait' = ShortWait
             /\ pc' = "setup_load"
             /\ exc' = exc
        ELSE /\ driver' = driver
             /\ wait' = wait
             /\ pc' = "exit_error"
             /\ exc' = "driver_setup"
    /\ UNCHANGED <<runVars, url, loopVars, formVars, extractVars, resetVars>>

\* 40-41: load the entry page; handle_login_popup swallows its own failures
SetupLoad ==
    /\ pc = "setup_load"
    /\ \E loaded \in BOOLEAN :
        IF loaded
        THEN /\ url' = EntryUrl
             /\ pc' = "run_iter"
             /\ exc' = exc
        ELSE /\ url' = url
             /\ pc' = "exit_error"
             /\ exc' = "navigation"
    /\ UNCHANGED <<runVars, wait, loopVars, formVars, extractVars, resetVars,
                   mainVars>>

\* 388-391, 67-77: run() has returned or raised; finally: quit_driver.  When
\* driver.quit() raises, the handler at 76 logs it and the rmtree at 75 is
\* not reached.  An exception of run() leaves main() after the finally.
QuitDriver ==
    /\ pc \in {"done", "aborted"}
    /\ \E quitted \in BOOLEAN :
        IF quitted
        THEN /\ driver' = "none"
             /\ user_data_dir' = "removed"
        ELSE UNCHANGED <<driver, user_data_dir>>
    /\ pc' = IF pc = "done" THEN "exit_ok" ELSE "exit_error"
    /\ UNCHANGED <<runVars, wait, url, exc, loopVars, formVars, extractVars,
                   resetVars>>

(* ------------------------------ run(): call ---------------------------- *)

\* search_flights raised: its handler logs and re-raises (225-227), and the
\* exception reaches the except clause of run()
Raise(kind) ==
    /\ pc' = "run_except"
    /\ exc' = kind

\* run(), 357-360: the loop takes the next destination and calls search_flights
RunIter ==
    /\ pc = "run_iter"
    /\ pc' = "sf_ready"
    /\ started' = Append(started, to_city)
    /\ outcome' = "pending"
    /\ exc' = "none"
    /\ resetFailed' = FALSE
    /\ reloaded' = FALSE
    /\ readyOk' = FALSE
    /\ UNCHANGED <<mainVars, i, now, resets, wait, url, loopVars, formVars, extractVars>>

(* ---------------------------- search_flights --------------------------- *)

\* 147-148: wait for the origin input to be present
SfReady ==
    /\ pc = "sf_ready"
    /\ \E d \in Delays :
        IF Within(d, wait)
        THEN /\ pc' = "sf_from_input"
             /\ exc' = exc
        ELSE Raise("form_not_ready")
    /\ UNCHANGED <<mainVars, runVars, wait, url, loopVars, formVars, extractVars, resetVars>>

\* 149-152: handle_login_banner swallows its own failures; then wait for the
\* origin input to be clickable
SfFromInput ==
    /\ pc = "sf_from_input"
    /\ \E d \in Delays :
        IF Within(d, wait)
        THEN /\ pc' = "sf_city"
             /\ exc' = exc
             /\ field' = "from"
             /\ attempt' = 0
        ELSE /\ Raise("from_input")
             /\ UNCHANGED <<field, attempt>>
    /\ UNCHANGED <<mainVars, runVars, wait, url, is_return, formVars, extractVars, resetVars>>

\* a flow that goes from the origin field straight to the dates
SkipDestination(f) == "sd_attempt"

\* 163 -> 170 and 182 -> 189: after the break of a city loop comes the
\* destination input, or the first select_date
AfterCity(f) == IF f = "from" THEN "sf_to_input" ELSE "sd_attempt"

\* 153-163 and 172-182: one attempt at a city field: click, clear, type, wait
\* for the suggestion, click it, confirm the value holds the code
SfCityAttempt ==
    /\ pc = "sf_city"
    /\ \E d \in Delays, acted \in BOOLEAN :
        IF acted /\ Within(d, wait)
        THEN /\ IF field = "from"
                THEN /\ fromValue' = from_city
                     /\ toValue' = toValue
                ELSE /\ toValue' = to_city
                     /\ fromValue' = fromValue
             /\ pc' = AfterCity(field)
             /\ attempt' = 0
             /\ is_return' = FALSE
        ELSE /\ pc' = "sf_city_failed"
             /\ UNCHANGED <<fromValue, toValue, attempt, is_return>>
    /\ UNCHANGED <<mainVars, runVars, wait, url, exc, field, depSelected, retSelected,
                   fbTried, fbClickable, validationSeen, submitClicks, signals, errShot,
                   extractVars, resetVars>>

\* 164-168 and 183-187: the handler of a failed attempt sends ENTER to the
\* field (which may itself raise) and raises after the second attempt
SfCityFailed ==
    /\ pc = "sf_city_failed"
    /\ \E sent \in BOOLEAN :
        IF sent /\ attempt < CityAttempts - 1
        THEN /\ attempt' = attempt + 1
             /\ pc' = "sf_city"
             /\ exc' = exc
        ELSE /\ Raise(IF ~sent THEN "enter_key"
                      ELSE IF field = "from" THEN "from_city" ELSE "to_city")
             /\ attempt' = attempt
    /\ UNCHANGED <<mainVars, runVars, wait, url, field, is_return, formVars, extractVars,
                   resetVars>>

\* 170-171: wait for the destination input to be clickable
SfToInput ==
    /\ pc = "sf_to_input"
    /\ \E d \in Delays :
        IF Within(d, wait)
        THEN /\ pc' = "sf_city"
             /\ exc' = exc
             /\ field' = "to"
             /\ attempt' = 0
        ELSE /\ Raise("to_input")
             /\ UNCHANGED <<field, attempt>>
    /\ UNCHANGED <<mainVars, runVars, wait, url, is_return, formVars, extractVars, resetVars>>

(* ------------------------------ select_date ---------------------------- *)

\* the date select_date was called with (189, 190), and its name in the logs
DateKind == IF is_return THEN "return" ELSE "departure"

TargetDate == IF is_return THEN return_date ELSE departure_date

\* a shift that selects the target date again
SameDay(date) == date

\* 134: next_date = date + timedelta(days=1)
NextDay(date) == date + 1

\* the calendar cell of `date` was clicked (127, 138)
ClickDate(date) ==
    IF is_return
    THEN /\ retSelected' = retSelected \cup {date}
         /\ depSelected' = depSelected
    ELSE /\ depSelected' = depSelected \cup {date}
         /\ retSelected' = retSelected

\* select_date returns: 189 -> 190 -> 192
SelectDateReturns ==
    IF is_return
    THEN /\ pc' = "sf_validate"
         /\ is_return' = is_return
    ELSE /\ pc' = "sd_attempt"
         /\ is_return' = TRUE

\* 118-131: one attempt: open the date field, wait for the cell labelled with
\* the target date and not disabled, click it
SelectDateAttempt ==
    /\ pc = "sd_attempt"
    /\ \E d \in Delays, acted \in BOOLEAN :
        IF acted /\ Within(d, wait)
        THEN /\ ClickDate(TargetDate)
             /\ SelectDateReturns
             /\ attempt' = 0
        ELSE /\ UNCHANGED <<depSelected, retSelected, is_return>>
             /\ IF attempt = DateAttempts - 1
                THEN /\ pc' = "sd_fallback"
                     /\ attempt' = attempt
                ELSE /\ pc' = "sd_attempt"
                     /\ attempt' = attempt + 1
    /\ UNCHANGED <<mainVars, runVars, wait, url, exc, field, fromValue, toValue, fbTried,
                   fbClickable, validationSeen, submitClicks, signals, errShot, extractVars,
                   resetVars>>

\* 132-142: after the third failure, wait for the cell of the next day and
\* click it; raise when that fails too
SelectDateFallback ==
    /\ pc = "sd_fallback"
    /\ \E d \in Delays :
        /\ fbTried' = fbTried \cup {DateKind}
        /\ IF Within(d, wait)
           THEN /\ fbClickable' = fbClickable \cup {DateKind}
                /\ ClickDate(NextDay(TargetDate))
                /\ SelectDateReturns
                /\ attempt' = 0
                /\ exc' = exc
           ELSE /\ Raise(DateKind)
                /\ UNCHANGED <<fbClickable, depSelected, retSelected, is_return,
                               attempt>>
    /\ UNCHANGED <<mainVars, runVars, wait, url, field, fromValue, toValue, validationSeen,
                   submitClicks, signals, errShot, extractVars, resetVars>>

(* ------------------- search_flights: validate and submit --------------- *)

\* 192-197: the lookup of the validation-error message and the raise that
\* follows a hit are both inside try ... except: pass, so control reaches 199
\* whether or not the message is there
AfterValidation(present) == "sf_button"

SfValidate ==
    /\ pc = "sf_validate"
    /\ \E present \in BOOLEAN :
        /\ validationSeen' = present
        /\ pc' = AfterValidation(present)
    /\ UNCHANGED <<mainVars, runVars, wait, url, exc, loopVars, fromValue, toValue,
                   depSelected, retSelected, fbTried, fbClickable, submitClicks,
                   signals, errShot, extractVars, resetVars>>

\* 199-205: wait for the search button, click it, switch to the results budget;
\* the page may leave the entry URL
SfSubmit ==
    /\ pc = "sf_button"
    /\ \E d \in Delays :
        IF Within(d, wait)
        THEN /\ submitClicks' = submitClicks + 1
             /\ \E u \in {url, OtherUrl} : url' = u
             /\ wait' = ResultsWait
             /\ pc' = "sf_results"
             /\ exc' = exc
        ELSE /\ Raise("search_button")
             /\ UNCHANGED <<submitClicks, url, wait>>
    /\ UNCHANGED <<mainVars, runVars, loopVars, fromValue, toValue, depSelected, retSelected,
                   fbTried, fbClickable, validationSeen, signals, errShot,
                   extractVars, resetVars>>

\* 206-214: wait until any of: URL contains "results", results container
\* present, loading indicator invisible, price text present
SfResults ==
    /\ pc = "sf_results"
    /\ \E sig \in [1..4 -> Delays] :
        /\ signals' = sig
        /\ IF AnyOf(sig, wait)
           THEN pc' = "sf_return"
           ELSE pc' = "sf_timeout"
    /\ UNCHANGED <<mainVars, runVars, wait, url, exc, loopVars, fromValue, toValue, depSelected,
                   retSelected, fbTried, fbClickable, validationSeen, submitClicks,
                   errShot, extractVars, resetVars>>

\* 215-220: save the screenshot, read the URL, go back to the entry page and
\* restore the short budget; a driver.get that raises leaves the handler at 219
SfTimeout ==
    /\ pc = "sf_timeout"
    /\ errShot' = TRUE
    /\ \E loaded \in BOOLEAN :
        IF loaded
        THEN /\ url' = EntryUrl
             /\ wait' = ShortWait
             /\ pc' = "sf_timeout_ready"
             /\ exc' = exc
        ELSE /\ Raise("navigation")
             /\ UNCHANGED <<url, wait>>
    /\ UNCHANGED <<mainVars, runVars, loopVars, fromValue, toValue, depSelected, retSelected,
                   fbTried, fbClickable, validationSeen, submitClicks, signals,
                   extractVars, resetVars>>

\* 221-223: wait for the form; raise the wait's timeout, or else the
\* "Results page did not load" error
SfTimeoutRaise ==
    /\ pc = "sf_timeout_ready"
    /\ \E d \in Delays :
        Raise(IF Within(d, wait) THEN "results_timeout" ELSE "form_not_ready")
    /\ UNCHANGED <<mainVars, runVars, wait, url, loopVars, formVars, extractVars, resetVars>>

(* -------------------------- extract_top_flights ------------------------ *)

\* search_flights returned; extract_top_flights starts (361, 232): the long
\* budget is installed.  What the search left behind is no longer observed.
ExStart ==
    /\ pc = "sf_return"
    /\ pc' = "ex_no_results"
    /\ wait' = LongWait
    /\ fromValue' = ""
    /\ toValue' = ""
    /\ depSelected' = {}
    /\ retSelected' = {}
    /\ fbTried' = {}
    /\ fbClickable' = {}
    /\ validationSeen' = FALSE
    /\ submitClicks' = 0
    /\ signals' = <<>>
    /\ UNCHANGED <<mainVars, runVars, url, exc, loopVars, errShot, extractVars, resetVars>>

\* the no-results check never ends the extraction
NeverShortCircuit(seen) == "ex_probe"

\* 234-241: a hit returns the empty list at once, a miss is swallowed
AfterNoResultsCheck(seen) == IF seen THEN "ex_return" ELSE "ex_probe"

\* 234-241: wait for the "No flights found" / "no results" paragraph
ExNoResults ==
    /\ pc = "ex_no_results"
    /\ \E d \in Delays :
        /\ noResultsSeen' = Within(d, wait)
        /\ pc' = AfterNoResultsCheck(Within(d, wait))
    /\ UNCHANGED <<mainVars, runVars, wait, url, exc, loopVars, formVars, probed, locIdx, tried, winner,
                   found, flight_cards, cardIdx, flight_data, emitted, priceFound, diag,
                   resetVars>>

\* 244-246: wait for any element that shows results are rendered; a timeout
\* is caught by the function's own handler at 345
ExProbe ==
    /\ pc = "ex_probe"
    /\ probed' = TRUE
    /\ \E d \in Delays :
        pc' = IF Within(d, wait) THEN "ex_locate" ELSE "ex_except"
    /\ UNCHANGED <<mainVars, runVars, wait, url, exc, loopVars, formVars, noResultsSeen,
                   locIdx, tried, winner, found, flight_cards, cardIdx, flight_data, emitted, priceFound, diag,
                   resetVars>>

\* 258: presence_of_all_elements_located gives the list of matches, and
\* wait.until returns it only when it is truthy, that is, not empty
ElementsPresent(n) == n > 0

\* the loop goes on to the next locator after a match
KeepLooking == "ex_locate"

\* 259-260: a match ends the loop
AfterLocatorMatch == "ex_cards"

\* 256-263: evaluate the next locator of the list: the page holds n matches
\* after d units; the first TopN of them are kept; a timeout moves on
ExLocate ==
    /\ pc = "ex_locate"
    /\ locIdx < NumLocators
    /\ locIdx' = locIdx + 1
    /\ tried' = Append(tried, locators[locIdx + 1])
    /\ \E d \in Delays, n \in 0..MaxCards :
        IF Within(d, wait) /\ ElementsPresent(n)
        THEN /\ found' = n
             /\ flight_cards' = FirstCards(n)
             /\ winner' = locIdx + 1
             /\ pc' = AfterLocatorMatch
        ELSE /\ UNCHANGED <<found, flight_cards, winner>>
             /\ pc' = IF locIdx' < NumLocators THEN "ex_locate" ELSE "ex_no_cards"
    /\ UNCHANGED <<mainVars, runVars, wait, url, exc, loopVars, formVars, noResultsSeen,
                   probed, cardIdx, flight_data, emitted, priceFound, diag, resetVars>>

\* 265-272: no locator produced cards: write markup and screenshot, return []
ExNoCards ==
    /\ pc = "ex_no_cards"
    /\ diag' = TRUE
    /\ pc' = "ex_return"
    /\ UNCHANGED <<mainVars, runVars, wait, url, exc, loopVars, formVars, noResultsSeen,
                   probed, locIdx, tried, winner, found, flight_cards, cardIdx, flight_data,
                   emitted, priceFound, resetVars>>

\* 281-301: the duration element's text; else the first fallback XPath that
\* finds an element; a missing or empty fallback text gives "3"
Duration(primary, fallback1, fallback2) ==
    IF primary.found
    THEN Strip(primary.text)
    ELSE LET fb == IF fallback1.found THEN Strip(fallback1.text)
                   ELSE IF fallback2.found THEN Strip(fallback2.text)
                   ELSE <<>>
         IN IF fb = <<>> THEN DefaultDuration ELSE fb

\* 304-319: the airline element's text; else the first fallback value
Airline(elem) == IF elem.found THEN Strip(elem.text) ELSE DefaultAirline

\* 322-326: the price element's text; else "N/A"
Price(elem) == IF elem.found THEN Strip(elem.text) ELSE NA

\* a gate that lets every card through
AlwaysResolved(price) == TRUE

\* 328: if price != "N/A"
PriceResolved(price) == price # NA

\* an emptiness test that never fires
NeverEmpty(rows) == FALSE

\* 336: if not flight_data
NoRows(rows) == rows = <<>>

\* 275-344: parse the next card and append its row when the price is resolved;
\* after the last card, write diagnostics when no row was built, and return
ExCard ==
    /\ pc = "ex_cards"
    /\ cardIdx <= Len(flight_cards)
    /\ \E dur \in Lookup(DurationTexts), fb1 \in Lookup(DurationTexts),
          fb2 \in Lookup(DurationTexts), air \in Lookup(AirlineTexts),
          pr \in Lookup(PriceTexts) :
        LET duration == Duration(dur, fb1, fb2)
            airline == Airline(air)
            price == Price(pr)
        IN /\ IF PriceResolved(price)
              THEN /\ flight_data' = Append(flight_data,
                           <<from_city, to_city, duration, AirlinePrice(airline, price)>>)
                   /\ emitted' = Append(emitted, flight_cards[cardIdx])
              ELSE UNCHANGED <<flight_data, emitted>>
           /\ priceFound' = pr.found
    /\ cardIdx' = cardIdx + 1
    /\ IF cardIdx < Len(flight_cards)
       THEN /\ pc' = pc
            /\ diag' = diag
       ELSE /\ pc' = "ex_return"
            /\ diag' = NoRows(flight_data')
    /\ UNCHANGED <<mainVars, runVars, wait, url, exc, loopVars, formVars, noResultsSeen,
                   probed, locIdx, tried, winner, found, flight_cards, resetVars>>

\* 345-353: the handler of the function: diagnostics, return []
ExExcept ==
    /\ pc = "ex_except"
    /\ diag' = TRUE
    /\ flight_data' = <<>>
    /\ emitted' = <<>>
    /\ priceFound' = FALSE
    /\ pc' = "ex_return"
    /\ UNCHANGED <<mainVars, runVars, wait, url, exc, loopVars, formVars, noResultsSeen,
                   probed, locIdx, tried, winner, found, flight_cards, cardIdx, resetVars>>

(* --------------------------- run(): outcome ---------------------------- *)

\* 363-368: print the table, or "No flights found ..." for an empty list
RunReport ==
    /\ pc = "ex_return"
    /\ outcome' = IF flight_data # <<>> THEN "table" ELSE "none"
    /\ pc' = "run_finally"
    /\ noResultsSeen' = FALSE
    /\ probed' = FALSE
    /\ locIdx' = 0
    /\ tried' = <<>>
    /\ winner' = 0
    /\ found' = 0
    /\ flight_cards' = <<>>
    /\ cardIdx' = 1
    /\ flight_data' = <<>>
    /\ emitted' = <<>>
    /\ priceFound' = FALSE
    /\ diag' = FALSE
    /\ UNCHANGED <<mainVars, i, now, started, resets, wait, url, exc, loopVars, formVars,
                   resetVars>>

\* a handler that leaves the loop
LeaveLoop == "done"

\* 369-372: the handler of run() prints the failure; the finally clause follows
AfterFailure == "run_finally"

\* 369-371: except Exception: log and print "Failed to retrieve flights ..."
RunExcept ==
    /\ pc = "run_except"
    /\ outcome' = "failed"
    /\ pc' = AfterFailure
    /\ fromValue' = ""
    /\ toValue' = ""
    /\ depSelected' = {}
    /\ retSelected' = {}
    /\ fbTried' = {}
    /\ fbClickable' = {}
    /\ validationSeen' = FALSE
    /\ submitClicks' = 0
    /\ signals' = <<>>
    /\ errShot' = FALSE
    /\ UNCHANGED <<mainVars, i, now, started, resets, wait, url, exc, loopVars, extractVars,
                   resetVars>>

\* 372-374: finally: reset the form unless this was the last destination
\* a test that also resets after the last destination
AlwaysReset(idx) == TRUE

\* 373: if i < len(self.to_cities) - 1
NeedsReset(idx) == idx < Len(to_cities) - 1

RunFinally ==
    /\ pc = "run_finally"
    /\ IF NeedsReset(i)
       THEN /\ resets' = resets + 1
            /\ pc' = "reset_form"
       ELSE /\ resets' = resets
            /\ pc' = "run_next"
    /\ UNCHANGED <<mainVars, i, now, started, outcome, wait, url, exc, loopVars, formVars,
                   extractVars, resetVars>>

(* ------------------------------ reset_form ----------------------------- *)

\* 90-108: clear both city inputs and reopen the date field, each step under
\* wait.until with the budget in force
ResetInPlace ==
    /\ pc = "reset_form"
    /\ \E d \in Delays, acted \in BOOLEAN :
        IF acted /\ Within(d, wait)
        THEN /\ pc' = "run_next"
             /\ resetFailed' = resetFailed
        ELSE /\ pc' = "reset_reload"
             /\ resetFailed' = TRUE
    /\ UNCHANGED <<mainVars, runVars, wait, url, exc, loopVars, formVars, extractVars,
                   reloaded, readyOk>>

\* 109-111: the handler of reset_form reloads the entry page; a driver.get
\* that raises leaves reset_form
ResetReload ==
    /\ pc = "reset_reload"
    /\ \E loaded \in BOOLEAN :
        IF loaded
        THEN /\ url' = EntryUrl
             /\ reloaded' = TRUE
             /\ pc' = "reset_ready"
        ELSE /\ UNCHANGED <<url, reloaded>>
             /\ pc' = "run_reload"
    /\ UNCHANGED <<mainVars, runVars, wait, exc, loopVars, formVars, extractVars,
                   resetFailed, readyOk>>

\* the caller carries on after a failed readiness wait
CarryOn == "run_next"

\* 375-378: an exception leaving reset_form is caught by run()
AfterResetRaised == "run_reload"

\* 112-113: wait for the origin input after the reload; a timeout leaves
\* reset_form
ResetReady ==
    /\ pc = "reset_ready"
    /\ \E d \in Delays :
        IF Within(d, wait)
        THEN /\ readyOk' = TRUE
             /\ pc' = "run_next"
        ELSE /\ readyOk' = readyOk
             /\ pc' = AfterResetRaised
    /\ UNCHANGED <<mainVars, runVars, wait, url, exc, loopVars, formVars, extractVars,
                   resetFailed, reloaded>>

(* ------------------------ run(): reload and next ----------------------- *)

\* 377-379: run() reloads the entry page itself; this driver.get is inside
\* the finally clause, so when it raises the exception leaves run()
RunReload ==
    /\ pc = "run_reload"
    /\ \E loaded \in BOOLEAN :
        IF loaded
        THEN /\ url' = EntryUrl
             /\ reloaded' = TRUE
             /\ pc' = "run_ready"
             /\ exc' = exc
        ELSE /\ UNCHANGED <<url, reloaded>>
             /\ pc' = "aborted"
             /\ exc' = "navigation"
    /\ UNCHANGED <<mainVars, runVars, wait, loopVars, formVars, extractVars, resetFailed,
                   readyOk>>

\* 380-381: wait for the origin input; a timeout leaves run()
RunReady ==
    /\ pc = "run_ready"
    /\ \E d \in Delays :
        IF Within(d, wait)
        THEN /\ readyOk' = TRUE
             /\ pc' = "run_next"
             /\ exc' = exc
        ELSE /\ readyOk' = readyOk
             /\ pc' = "aborted"
             /\ exc' = "form_not_ready"
    /\ UNCHANGED <<mainVars, runVars, wait, url, loopVars, formVars, extractVars,
                   resetFailed, reloaded>>

\* 382-383, 357: restore the short budget, sleep, take the next destination or
\* return
RunNext ==
    /\ pc = "run_next"
    /\ wait' = ShortWait
    /\ IF i < Len(to_cities) - 1
       THEN /\ i' = i + 1
            /\ pc' = "run_iter"
       ELSE /\ i' = i
            /\ pc' = "done"
    /\ UNCHANGED <<mainVars, now, started, outcome, resets, url, exc, loopVars, formVars,
                   extractVars, resetVars>>

(* --------------------------- specification ----------------------------- *)

Next ==
    \/ SetupDriver
    \/ SetupLoad
    \/ QuitDriver
    \/ RunIter
    \/ SfReady
    \/ SfFromInput
    \/ SfCityAttempt
    \/ SfCityFailed
    \/ SfToInput
    \/ SelectDateAttempt
    \/ SelectDateFallback
    \/ SfValidate
    \/ SfSubmit
    \/ SfResults
    \/ SfTimeout
    \/ SfTimeoutRaise
    \/ ExStart
    \/ ExNoResults
    \/ ExProbe
    \/ ExLocate
    \/ ExNoCards
    \/ ExCard
    \/ ExExcept
    \/ RunReport
    \/ RunExcept
    \/ RunFinally
    \/ ResetInPlace
    \/ ResetReload
    \/ ResetReady
    \/ RunReload
    \/ RunReady
    \/ RunNext

Spec == Init /\ [][Next]_vars

\* the program is sequential and every step ends by itself: each wait gives
\* up when its budget is spent (39, 205, 232) and each sleep is finite (383),
\* so a step that can be taken is taken
LiveSpec == Spec /\ WF_vars(Next)

(* ------------------------------ properties ----------------------------- *)

\* s ends with suf
EndsWith(s, suf) ==
    /\ Len(suf) <= Len(s)
    /\ SubSeq(s, Len(s) - Len(suf) + 1, Len(s)) = suf

\* the positions in run() and its stages at which a destination is in progress
InDestination ==
    pc \notin {"main", "setup_load", "run_iter", "done", "aborted", "exit_ok", "exit_error"}

\* C1: whatever search_flights and extract_top_flights do (raise, return an
\* empty list, return rows), the searches started so far are the first
\* destinations of to_cities, each once and in the configured order, the one in
\* progress is the last of them, and when run() returns every destination of
\* to_cities has been started.
BatchCompletion ==
    /\ Len(started) <= Len(to_cities)
    /\ started = SubSeq(to_cities, 1, Len(started))
    /\ InDestination => Len(started) = i + 1
    /\ pc = "run_iter" => Len(started) = i
    /\ pc \in {"done", "exit_ok"} => started = to_cities

\* C1 witness: the third destination failed and the fourth is about to start
BatchGoesOnAfterFailure ==
    /\ pc = "run_iter"
    /\ i = 3
    /\ outcome = "failed"
    /\ started = <<"DEL", "CCU", "MAA">>

\* what the airline and price parts of a row can be when both were resolved
\* as the code resolves them
AirlineValues == {Strip(t) : t \in AirlineTexts} \cup {DefaultAirline}

ReadPrices == {Strip(t) : t \in PriceTexts} \ {NA}

\* C2: every row of flight_data carries, after the airline, a price text read
\* from a price element of the page, and never the placeholder "N/A".
PriceAlwaysResolved ==
    \A k \in 1..Len(flight_data) :
        /\ \E a \in AirlineValues, p \in ReadPrices :
              flight_data[k][4] = AirlinePrice(a, p)
        /\ ~EndsWith(flight_data[k][4], NA)

\* C2 witness: an extraction returned rows after skipping a card without price
SkippedUnpricedCard ==
    /\ pc = "ex_return"
    /\ Len(flight_data) >= 1
    /\ Len(flight_data) < Len(flight_cards)

\* C3: flight_data never holds more than 5 rows, and its rows come from cards
\* of the winning locator's result in increasing position: a subsequence of
\* the resolved cards, in their order.
TopFiveInOrder ==
    /\ Len(flight_data) <= 5
    /\ Len(emitted) = Len(flight_data)
    /\ \A k \in 1..Len(emitted) : emitted[k] \in 1..found
    /\ \A k \in 1..Len(emitted), l \in 1..Len(emitted) : k < l => emitted[k] < emitted[l]

\* C3 witness: the locator matched more than 5 elements, 5 rows were returned
CappedAtFive ==
    /\ pc = "ex_return"
    /\ found > 5
    /\ Len(flight_data) = 5

DateFallbackSucceeds ==
    /\ pc = "sd_fallback" => attempt = 2
    /\ "departure" \in fbClickable =>
          /\ depSelected = {departure_date + 1}
          /\ is_return
          /\ exc # "departure"
    /\ "return" \in fbClickable =>
          /\ retSelected = {return_date + 1}
          /\ pc # "sd_attempt" /\ pc # "sd_fallback"
          /\ exc # "return"

\* C5 witness: both dates were shifted and the search was submitted
SubmittedWithShiftedDates ==
    /\ fbClickable = {"departure", "return"}
    /\ submitClicks = 1

\* C6: when the validation-error message was found after the dates were
\* selected, the search button is not clicked for that destination.
ValidationBlocksSubmit == validationSeen => submitClicks = 0

\* the signals of the results wait that held within the 15-unit budget
SignalsInTime == {k \in DOMAIN signals : signals[k] <= 15}

\* C7: after the submit click, search_flights returns normally exactly when
\* at least one of the four completion signals held within 15 units: it is at
\* its return only with such a signal, and on its timeout path only without.
AnySignalSuffices ==
    /\ pc = "sf_return" => SignalsInTime # {}
    /\ pc \in {"sf_timeout", "sf_timeout_ready"} => signals # <<>> /\ SignalsInTime = {}
    /\ (pc = "run_except" /\ signals # <<>>) => SignalsInTime = {}

\* C7 witness: the search returned on the strength of a single signal
ReturnedOnOneSignal ==
    /\ pc = "sf_return"
    /\ Cardinality(SignalsInTime) = 1

\* C8: when search_flights raises after the results wait timed out, the
\* screenshot has been written, the browser is on the entry page and the wait
\* budget is 5.
TimeoutLeavesShortBudget ==
    (pc = "run_except" /\ signals # <<>>) =>
        /\ errShot
        /\ url = EntryUrl
        /\ wait = 5

\* C9: no exception leaves run().
RunNeverRaises == pc # "aborted"

\* C10: the next destination starts after a failed in-place reset only when
\* the entry page was reloaded and the form-readiness wait after the reload
\* succeeded.
ReloadBeforeNextDestination ==
    (pc \in {"run_next", "run_iter"} /\ resetFailed) =>
        /\ reloaded
        /\ readyOk
        /\ url = EntryUrl

\* C10 witness: the next destination is about to start after a failed reset
NextAfterFailedReset ==
    /\ pc = "run_iter"
    /\ i >= 1
    /\ resetFailed


\* the extraction at its return came through its own handler (345-353): the
\* readiness probe was evaluated and no locator after it
ExtractionFailed == pc = "ex_return" /\ probed /\ locIdx = 0

\* C11: run() reports one outcome per destination: the table for a non-empty
\* list, the "No flights found" notice when the no-results message gave the
\* empty list, the failure notice when a stage failed; once reported, the
\* outcome of a destination is not replaced by another.
OneOutcomePerStage ==
    [][ /\ (pc = "ex_return" /\ flight_data # <<>>) => outcome' = "table"
        /\ (pc = "ex_return" /\ noResultsSeen) => outcome' = "none"
        /\ pc = "run_except" => outcome' = "failed"
        /\ ExtractionFailed => outcome' = "failed"
        /\ outcome' # outcome => (outcome = "pending" \/ outcome' = "pending")
      ]_vars


\* C14: when the readiness probe timed out, run() records the destination as
\* a failure, not as an empty "No flights found" result.
ProbeTimeoutSurfaces ==
    [][ (ExtractionFailed /\ ~noResultsSeen) => outcome' = "failed" ]_vars


\* C12: when main() has ended, on whatever path, the profile directory that
\* setup_driver created is no longer there.
ProfileRemovedAtExit ==
    pc \in {"exit_ok", "exit_error"} => user_data_dir # "exists"


\* C13: the locators evaluated are the first ones of the list, in its order
\* and each once; the cards in use are those of the last locator evaluated,
\* which matched at least one element, so every locator before it matched
\* none and none after it has been evaluated; without a winner no card is used.
LocatorsInOrder ==
    /\ Len(tried) = locIdx
    /\ tried = SubSeq(locators, 1, Len(tried))
    /\ winner > 0 =>
          /\ winner = Len(tried)
          /\ found >= 1
          /\ Len(flight_cards) >= 1
    /\ winner = 0 => found = 0 /\ flight_cards = <<>>
    /\ pc = "ex_cards" => winner > 0
    /\ pc = "ex_no_cards" => winner = 0 /\ tried = locators

\* C13 witness: the third locator won after the first two matched nothing
ThirdLocatorWon ==
    /\ pc = "ex_cards"
    /\ winner = 3
    /\ tried = <<"flight_card", "flight_or_result", "css_class">>


\* C15: a city field gets at most 2 attempts; a failed first attempt is
\* followed by a second attempt at the same field; a failed second attempt
\* makes search_flights raise, before any date is selected or the search
\* button clicked.
CityRetryProtocol ==
    [][ /\ pc = "sf_city" => attempt < 2
        /\ (pc = "sf_city_failed" /\ attempt = 0) =>
              (pc' = "sf_city" /\ attempt' = 1 /\ field' = field)
        /\ (pc = "sf_city_failed" /\ attempt = 1) =>
              (pc' = "run_except" /\ depSelected = {} /\ retSelected = {}
                  /\ submitClicks = 0)
      ]_vars


\* the positions of search_flights after both select_date calls returned
AfterDates ==
    {"sf_validate", "sf_button", "sf_results", "sf_timeout", "sf_timeout_ready",
     "sf_return"}

\* C16: the next-day fallback of select_date is tried at most once per date
\* and only after 3 failed attempts on the target date; a failed fallback
\* raises and the destination fails with no click on the search button;
\* select_date returns only after one date cell, the target or the next day,
\* was clicked.
DateFallbackProtocol ==
    /\ pc = "sd_attempt" => attempt < 3
    /\ pc = "sd_fallback" => (attempt + 1 = 3 /\ DateKind \notin fbTried)
    /\ fbTried \ fbClickable # {} =>
          (pc = "run_except" /\ exc \in fbTried \ fbClickable /\ submitClicks = 0)
    /\ ((pc \in {"sd_attempt", "sd_fallback"} /\ is_return) \/ pc \in AfterDates) =>
          /\ Cardinality(depSelected) = 1
          /\ depSelected \subseteq {departure_date, departure_date + 1}
          /\ (depSelected = {departure_date + 1}) <=> ("departure" \in fbClickable)
    /\ pc \in AfterDates =>
          /\ Cardinality(retSelected) = 1
          /\ retSelected \subseteq {return_date, return_date + 1}
          /\ (retSelected = {return_date + 1}) <=> ("return" \in fbClickable)

FallbackFailedNoSubmit ==
    /\ pc = "run_except" /\ exc = "return"
    /\ "return" \in fbTried /\ "return" \notin fbClickable
    /\ depSelected # {} /\ retSelected = {}
    /\ submitClicks = 0


\* C17: the price is the sole gate of the per-card extraction: parsing a card
\* emits a row if and only if the card's price element was found, whatever
\* became of its duration and airline.
PriceIsSoleGate ==
    [][ pc = "ex_cards" =>
            /\ (emitted' = Append(emitted, flight_cards[cardIdx])) <=> priceFound'
            /\ (emitted' = emitted) <=> ~priceFound'
            /\ Len(flight_data') = Len(emitted')
      ]_vars


\* C18: when no locator yields cards, or the cards yield no row,
\* extract_top_flights writes the page markup and a screenshot before it
\* returns the empty list; an empty list comes back without them only when
\* the no-results message was seen.
DiagnosticsOnEmpty ==
    pc = "ex_return" =>
        /\ (flight_data = <<>> /\ ~noResultsSeen) => diag
        /\ (flight_data = <<>> /\ ~diag) => noResultsSeen
        /\ noResultsSeen => (flight_data = <<>> /\ ~diag /\ ~probed)

CardsButNoRows ==
    /\ pc = "ex_return" /\ ~noResultsSeen
    /\ winner > 0 /\ Len(flight_cards) >= 2
    /\ flight_data = <<>> /\ diag


\* the positions whose next step is a wait on the page or the form: readiness,
\* form interaction, the form reset and the reloads
ShortStage ==
    {"sf_ready", "sf_from_input", "sf_city", "sf_to_input", "sd_attempt", "sd_fallback",
     "sf_button", "sf_timeout_ready", "reset_form", "reset_ready", "run_ready"}

\* the positions whose next step is a wait of the extraction
LongStage == {"ex_no_results", "ex_probe", "ex_locate"}

\* C19: every wait runs with the budget of its stage: 5 for page and form
\* readiness, form interaction, the form reset and the fallback reload, 15 for
\* the transition to the results, 30 for the extraction; at the start of every
\* destination the budget is 5.
BudgetPerStage ==
    /\ pc \in ShortStage => wait = 5
    /\ pc = "sf_results" => wait = 15
    /\ pc \in LongStage => wait = 30


\* the positions between the call of reset_form and the end of the finally
\* block of run()
ResetPhase == {"reset_form", "reset_reload", "reset_ready", "run_reload", "run_ready"}

\* C20: run() resets the form exactly once after each destination but the
\* last, whatever the destination's outcome, and never after the last; the
\* reset comes after the destination's outcome was reported and before the
\* search of the next destination starts.
ResetOncePerDestination ==
    /\ pc \in ResetPhase =>
          /\ i < Len(to_cities) - 1
          /\ resets = i + 1
          /\ outcome # "pending"
          /\ Len(started) = i + 1
    /\ pc = "run_next" =>
          resets = (IF i < Len(to_cities) - 1 THEN i + 1 ELSE i)
    /\ pc = "aborted" => resets = i + 1
    /\ pc = "done" => resets = Len(to_cities) - 1
    /\ pc \notin ResetPhase \cup {"run_next", "aborted", "done", "exit_ok", "exit_error"} =>
          resets = i
    /\ pc = "run_iter" => Len(started) = resets

ResetAfterFailedDestination ==
    /\ pc = "run_iter" /\ i = 1
    /\ resets = 1
    /\ outcome = "failed"


\* C21: within one destination's search the search button is clicked at most
\* once, and only after the origin field was confirmed to hold the origin
\* code, then the destination field the destination code, then the departure
\* and then the return date selection returned; the results wait starts only
\* after the click.
SubmitOnceAfterForm ==
    /\ submitClicks <= 1
    /\ toValue # "" => (toValue = to_city /\ fromValue = from_city)
    /\ fromValue # "" => fromValue = from_city
    /\ depSelected # {} => toValue = to_city
    /\ retSelected # {} => depSelected # {}
    /\ submitClicks = 1 => (retSelected # {} /\ pc \notin {"sf_validate", "sf_button"})
    /\ pc \in {"sf_validate", "sf_button"} => (retSelected # {} /\ submitClicks = 0)
    /\ pc \in {"sf_results", "sf_timeout", "sf_timeout_ready", "sf_return"} =>
          submitClicks = 1

SubmittedSecondDestination ==
    /\ pc = "sf_results" /\ i = 1
    /\ submitClicks = 1
    /\ fromValue = "BLR" /\ toValue = "CCU"
    /\ fbTried = {}


\* C22: whatever fallbacks were taken, the departure date selected is the run
\* time + 1 day or one day later, the return date selected is the departure
\* target + 4 days or one day later, and the return date selected is strictly
\* later than the departure date selected.
SelectedDatesInRange ==
    /\ \A d \in depSelected : d \in {now + 1, now + 2}
    /\ \A r \in retSelected : r \in {now + 1 + 4, now + 1 + 4 + 1}
    /\ \A d \in depSelected, r \in retSelected : r > d

OnlyDepartureShifted ==
    /\ pc = "sf_validate"
    /\ depSelected = {now + 2}
    /\ retSelected = {now + 5}
    /\ fbClickable = {"departure"}


\* run() has returned or raised
RunEnded == pc \in {"done", "aborted", "exit_ok", "exit_error"}

\* every loop of run() is bounded, so run() comes to an end, normally or not
RunTerminates == (pc = "run_iter") ~> RunEnded

\* C23: run() always terminates: all retry and fallback loops being bounded,
\* a session that entered run() reaches the end of run() after the last
\* destination, whatever the page does.
RunReachesEnd == (pc = "run_iter" /\ i = 0) ~> (pc = "done" /\ started = to_cities)

====
